---------------------------- MODULE Spec2Model ----------------------------
(***************************************************************************)
(* A model of lemmatag.py: the joint tagger + lemmatizer.                  *)
(*                                                                         *)
(*  Spec           main(): argument post-processing, tag codec selection,  *)
(*                 network construction and the training loop (rate        *)
(*                 schedule, evaluation, checkpoints, prediction files)    *)
(*  SpecConstruct  main() up to Network.construct, over the arguments      *)
(*                 that shape the network; the dependency graph            *)
(*  SpecTeacher    the target sequences and the training decoder           *)
(*  SpecInfer      the predicting decoder: beam search and greedy          *)
(*  SpecPredict    Network.predict: the lemma strings of a batch           *)
(*  SpecSmooth     compute_tags: the training targets of the tag heads     *)
(*  SpecEvaluate   Network.evaluate: the metric accumulators over the     *)
(*                 batches of a dataset                                    *)
(*                                                                         *)
(* Floats (rates, smoothing weights) are exact rationals [num, den];       *)
(* accuracies are integers in 0..AccLevels (multiples of 1/AccLevels);     *)
(* strings are sequences of characters.  The outputs of the neural         *)
(* network (predictions, scores, accuracies) are arbitrary values.         *)
(***************************************************************************)
EXTENDS Integers, Sequences, FiniteSets, TLC

VARIABLES
    pc,            \* position of main()
    args,          \* the argparse namespace
    tags_codec,    \* args.tags: the class of the tag codec, "none" before
    graph,         \* the network's dependency graph: <<node, input>> edges
    ep,            \* loop variable of the training loop
    rate,          \* local variable rate of the loop body
    dev_best,      \* best dev_acc_tag + dev_acc_lemsense so far
    dev_acc_tag,   \* result of the last network.evaluate("dev")
    dev_acc_lemsense,
    argv,          \* the arguments as parsed, before post-processing
    rates,         \* the rates passed to network.train_epoch, in order
    calls,         \* <<operation, object, epoch>> of the calls made in the
                   \* current iteration of the training loop
    counts         \* number of calls of each operation made so far

mainVars == <<pc, args, tags_codec, graph, ep, rate, dev_best, dev_acc_tag,
              dev_acc_lemsense, argv, rates, calls, counts>>

\* The training decoder of decode_lemmas, run on one batch of words
VARIABLES
    tpc,             \* position: "fed", "eow", "decode", "done"
    gold_seqs,       \* target_seqs as gathered (line 118), per word
    gold_lens,       \* target_lens as gathered (line 117), per word
    target_seqs,     \* target_seqs, per word
    target_lens,     \* target_lens, per word
    target_seqs_bow, \* the inputs of the training decoder, per word
    time,            \* the decoder's step
    train_inputs,    \* the tokens the training helper has handed out
    sample_ids       \* the decoder's own predictions of the last step

teacherVars == <<tpc, gold_seqs, gold_lens, target_seqs, target_lens,
                 target_seqs_bow, time, train_inputs, sample_ids>>

\* The predicting decoder of decode_lemmas, run on one word
VARIABLES
    ipc,                      \* position: "start", "decode", "done"
    beams,                    \* the partial sequences kept, best first
    candidates,               \* the continuations scored in the last step
    itime,                    \* the decoder's step
    lemma_predictions,        \* self.lemma_predictions, the word's row
    lemma_prediction_lengths  \* self.lemma_prediction_lengths, the word's

inferVars == <<ipc, beams, candidates, itime, lemma_predictions,
               lemma_prediction_lengths>>

\* Network.predict on one batch
VARIABLES
    ppc,            \* position: "batch", "run", "done"
    sentence_lens,  \* the lengths of the sentences of the batch
    sense_words,    \* dataset.factors[dataset.SENSES].words
    lp,             \* the lemma_predictions fetched, a row per word
    lpl,            \* the lemma_prediction_lengths fetched, per word
    senses,         \* the sense_prediction fetched, per word
    lemmas          \* the lemmas returned, per sentence and word

predictVars == <<ppc, sentence_lens, sense_words, lp, lpl, senses, lemmas>>

\* The training targets of compute_tags for one word
VARIABLES
    spc,          \* position: "fed", "done"
    num_tags,     \* the number of classes of every tag head
    tags,         \* the gold class of the word for every tag head
    gold_labels   \* the training target of every tag head

smoothVars == <<spc, num_tags, tags, gold_labels>>

\* Network.evaluate and the metric accumulators of the graph
VARIABLES
    epc,          \* position: "start", "batches", "done"
    dataset,      \* the sentences; a word has its gold tags and the tags
                  \* the network predicts for it
    batch_size,   \* args.batch_size
    permutation,  \* the dataset's indexes of the sentences not yet read
    metrics,      \* total and count of every tf.metrics.mean
    session_runs, \* what evaluate has run in the session, in order
    returned      \* the accuracies evaluate returns

evalVars == <<epc, dataset, batch_size, permutation, metrics, session_runs,
              returned>>

netVars == <<teacherVars, inferVars, predictVars, smoothVars, evalVars>>

vars == <<mainVars, netVars>>

----------------------------------------------------------------------------
(* Bounds of the model *)

MaxEpochs == 12      \* --epochs ranges over 0..MaxEpochs
MaxDropAfter == 2    \* --drop_rate_after ranges over 0..MaxDropAfter
AccLevels == 2       \* an accuracy is a/AccLevels, a in 0..AccLevels

(* Program constants *)

DropPeriod == 10     \* the rate is quartered every 10 epochs
DefaultEpochs == 40
DefaultDropAfter == 20

----------------------------------------------------------------------------
(* Exact rationals *)

Rat(n, d) == [num |-> n, den |-> d]

RatEq(a, b) == a.num * b.den = b.num * a.den

RatLeq(a, b) == a.num * b.den <= b.num * a.den

RECURSIVE Pow(_, _)
Pow(b, e) == IF e = 0 THEN 1 ELSE b * Pow(b, e - 1)

\* 0.25 ** e
QuarterPow(e) == Rat(1, Pow(4, e))

RatMul(a, b) == Rat(a.num * b.num, a.den * b.den)

----------------------------------------------------------------------------
(* main(): the argument parser *)

TagTypeChoices == {"char", "dict", "whole"}

\* An optional argument: None, or a given value
None == [given |-> FALSE]

Some(v) == [given |-> TRUE, val |-> v]

\* --learning_rate values tried: 0.001 (the default) and 0.01
LearningRates == {Rat(1, 1000), Rat(1, 100)}

\* --label_smoothing 0.1, the default
DefaultLabelSmoothing == Rat(1, 10)

DefaultArgs ==
    [epochs |-> DefaultEpochs, learning_rate |-> Rat(1, 1000),
     drop_rate_after |-> DefaultDropAfter,
     no_save_net |-> FALSE, only_eval |-> FALSE, builtin_sense |-> FALSE,
     tags_to_lemmas |-> FALSE, separate_rnn |-> FALSE,
     separate_embed |-> FALSE, beams |-> None,
     label_smoothing |-> DefaultLabelSmoothing,
     tag_signal_dropout |-> None, tag_type |-> "char"]

\* Python truthiness of an optional integer and of an optional float
TruthyInt(x) == x.given /\ x.val # 0

TruthyRat(x) == x.given /\ x.val.num # 0

----------------------------------------------------------------------------
(* Network.construct: the dependency graph.  A node is <<name, index>>; an *)
(* edge <<n, m>> says that tensor n is computed from tensor or variable m. *)

N(name) == <<name, 0>>

Edges(n, inputs) == {<<n, m>> : m \in inputs}

\* Number of tag heads: len(args.tags.num_tags())
TagLen == 2

NumHeads(codec) == IF codec = "WholeTags" THEN 1 ELSE 1 + TagLen

Heads(codec) == 1..NumHeads(codec)

\* embed_words / embed_characters and the choice of embeddings
EmbedName(a) == IF a.separate_embed THEN "lemmas" ELSE "common"

RnnInputsTags(a) ==
    IF a.separate_embed THEN N("rnn_inputs_tags") ELSE N("rnn_inputs_lemmas")

EmbedGraph(a) ==
    LET nm == EmbedName(a)
        cle == <<"char_embed", nm>>
        common ==
            Edges(cle, {<<"character_embeddings", nm>>, N("charseqs")})
            \cup Edges(N("rnn_inputs_lemmas"),
                       {cle, <<"embed_words", nm>>})
            \cup Edges(<<"embed_words", nm>>,
                       {<<"word_embeddings", nm>>, N("word_ids")})
            \cup Edges(N("word_cle_outputs"), {cle})
            \cup Edges(N("word_cle_states"), {cle})
    IN  IF a.separate_embed
        THEN common
             \cup Edges(N("rnn_inputs_tags"),
                        {<<"embed_words", "tags">>, <<"char_embed", "tags">>})
             \cup Edges(<<"embed_words", "tags">>,
                        {<<"word_embeddings", "tags">>, N("word_ids")})
             \cup Edges(<<"char_embed", "tags">>,
                        {<<"character_embeddings", "tags">>, N("charseqs")})
        ELSE common

\* compute_rnn(name, inputs): the output node is <<"compute_rnn", name>>
ComputeRnn(name, inputs) ==
    Edges(<<"compute_rnn", name>>, {inputs, <<"word-level-rnn", name>>})

SentenceRnnOutputsTags(a) ==
    IF a.separate_rnn THEN <<"compute_rnn", "tags">>
    ELSE <<"compute_rnn", "common">>

RnnGraph(a) ==
    IF a.separate_rnn
    THEN ComputeRnn("tags", RnnInputsTags(a))
         \cup ComputeRnn("lemmas", N("rnn_inputs_lemmas"))
         \cup Edges(N("word_rnn_outputs"), {<<"compute_rnn", "lemmas">>})
    ELSE ComputeRnn("common", RnnInputsTags(a))
         \cup Edges(N("word_rnn_outputs"), {SentenceRnnOutputsTags(a)})

\* compute_tags(): one dense output layer per head, concatenated
ComputeTagsGraph(a, codec) ==
    UNION {Edges(<<"output_layer", i>>,
                 {SentenceRnnOutputsTags(a), <<"output_layer_params", i>>})
           \cup Edges(N("loss_tag"), {<<"output_layer", i>>, N("tags")})
           \cup Edges(N("predictions"), {<<"output_layer", i>>})
           \cup Edges(N("tag_outputs"), {<<"output_layer", i>>})
           : i \in Heads(codec)}

\* The tag encoder for the lemmatizer: tag_outputs -> stop_gradient ->
\* dense -> dropout -> gather_nd (-> word-level signal dropout)
\* (variant: the dense layer reads tag_outputs directly)
TagFeatureBridgeNoStop(a) ==
    Edges(N("tag_features_dense"),
          {N("tag_outputs"), N("tag_features_dense_params")})
    \cup Edges(N("tag_features_dropout"), {N("tag_features_dense")})
    \cup Edges(N("tag_features_gather"), {N("tag_features_dropout")})
    \cup (IF TruthyRat(a.tag_signal_dropout)
          THEN Edges(N("tag_signal_dropout"), {N("tag_features_gather")})
          ELSE {})

TagFeatureBridge(a) ==
    Edges(N("stop_gradient"), {N("tag_outputs")})
    \cup Edges(N("tag_features_dense"),
               {N("stop_gradient"), N("tag_features_dense_params")})
    \cup Edges(N("tag_features_dropout"), {N("tag_features_dense")})
    \cup Edges(N("tag_features_gather"), {N("tag_features_dropout")})
    \cup (IF TruthyRat(a.tag_signal_dropout)
          THEN Edges(N("tag_signal_dropout"), {N("tag_features_gather")})
          ELSE {})

\* (variant: the tag encoder's output is kept whatever --tags_to_lemmas)
TagFeaturesAlwaysBridge(a) ==
    IF TruthyRat(a.tag_signal_dropout) THEN N("tag_signal_dropout")
    ELSE N("tag_features_gather")

\* The tensor the name tag_features is bound to after line 232
TagFeatures(a) ==
    IF ~a.tags_to_lemmas THEN N("tag_features_zeros")
    ELSE IF TruthyRat(a.tag_signal_dropout) THEN N("tag_signal_dropout")
    ELSE N("tag_features_gather")

\* tf.zeros([words_count, args.rnn_cell_dim]): a constant whose only inputs
\* are the two dimensions of its shape; words_count is the sum of the
\* sentence lengths
TagFeaturesZeros(a) ==
    IF ~a.tags_to_lemmas
    THEN Edges(N("tag_features_zeros"), {N("words_count"), N("rnn_cell_dim")})
         \cup Edges(N("words_count"), {N("sentence_lens")})
    ELSE {}

\* create_attn_cell: the inputs of the decoder cell
AttnCellInputs(a) ==
    {N("decoder_cell"), N("word_rnn_outputs"), TagFeatures(a),
     N("word_cle_states"), N("word_cle_outputs"), N("attention_params")}

\* decode_lemmas(): the training decoder, its loss, the predicting decoder
DecodeLemmasGraph(a) ==
    Edges(N("target_seqs_bow"), {N("target_seqs")})
    \cup Edges(N("tseq_emb"), {N("tchar_emb"), N("target_seqs_bow")})
    \cup Edges(N("train_cell"), AttnCellInputs(a))
    \cup Edges(N("pred_cell"), AttnCellInputs(a))
    \cup Edges(N("train_logits"),
               {N("train_cell"), N("tseq_emb"), N("decoder_layer"),
                N("word_cle_states")})
    \cup Edges(N("loss_lem"), {N("train_logits"), N("target_seqs")})
    \cup Edges(N("lemma_predictions"),
               {N("pred_cell"), N("tchar_emb"), N("decoder_layer"),
                N("word_cle_states")})

\* compute_sense()
ComputeSenseGraph(a) ==
    IF a.builtin_sense
    THEN Edges(N("sense_prediction"), {N("sense_zeros")})
    ELSE Edges(N("sense_layer"),
               {N("word_rnn_outputs"), TagFeatures(a),
                N("sense_layer_params")})
         \cup Edges(N("sense_prediction"), {N("sense_layer")})
         \cup Edges(N("loss_sense"), {N("sense_layer"), N("target_senses")})

\* loss = loss_tag + loss_lem * loss_lem_w + loss_sense * loss_sense_w
LossGraph(a) ==
    Edges(N("loss"),
          {N("loss_tag"), N("loss_lem")}
          \cup (IF a.builtin_sense THEN {} ELSE {N("loss_sense")}))

ConstructGraph(a, codec) ==
    EmbedGraph(a) \cup RnnGraph(a) \cup ComputeTagsGraph(a, codec)
    \cup TagFeatureBridge(a) \cup TagFeaturesZeros(a)
    \cup DecodeLemmasGraph(a)
    \cup ComputeSenseGraph(a) \cup LossGraph(a)

\* The nodes reachable from the nodes of S along the edges of g by paths
\* that visit no node of avoid
RECURSIVE ReachAvoiding(_, _, _)
ReachAvoiding(S, g, avoid) ==
    LET T == (S \cup {e[2] : e \in {f \in g : f[1] \in S}}) \ avoid
    IN  IF T = S THEN S ELSE ReachAvoiding(T, g, avoid)

\* compute_gradients(loss): the gradient of a loss reaches a node along
\* the dependency edges, and tf.stop_gradient passes none on
GradientReaches(l, g) == ReachAvoiding({l}, g, {N("stop_gradient")})

----------------------------------------------------------------------------
(* main() *)

NoCounts == [train_epoch |-> 0, evaluate |-> 0, save |-> 0, predict |-> 0]

Datasets == {"dev", "test"}

\* The network's operations are not run
IdleTeacher ==
    /\ tpc = "idle"
    /\ gold_seqs = <<>>
    /\ gold_lens = <<>>
    /\ target_seqs = <<>>
    /\ target_lens = <<>>
    /\ target_seqs_bow = <<>>
    /\ time = 0
    /\ train_inputs = <<>>
    /\ sample_ids = <<>>

IdleInfer ==
    /\ ipc = "idle"
    /\ beams = <<>>
    /\ candidates = <<>>
    /\ itime = 0
    /\ lemma_predictions = <<>>
    /\ lemma_prediction_lengths = 0

IdlePredict ==
    /\ ppc = "idle"
    /\ sentence_lens = <<>>
    /\ sense_words = <<>>
    /\ lp = <<>>
    /\ lpl = <<>>
    /\ senses = <<>>
    /\ lemmas = <<>>

IdleSmooth ==
    /\ spc = "idle"
    /\ num_tags = <<>>
    /\ tags = <<>>
    /\ gold_labels = <<>>

IdleEvaluate ==
    /\ epc = "idle"
    /\ dataset = <<>>
    /\ batch_size = 0
    /\ permutation = <<>>
    /\ metrics = <<>>
    /\ session_runs = <<>>
    /\ returned = <<>>

InitMain(arguments) ==
    /\ IdleTeacher
    /\ IdleInfer
    /\ IdlePredict
    /\ IdleSmooth
    /\ IdleEvaluate
    /\ pc = "parsed"
    /\ args \in arguments
    /\ argv = args
    /\ tags_codec = "none"
    /\ graph = {}
    /\ ep = 0
    /\ rate = Rat(0, 1)
    /\ dev_best = 0
    /\ dev_acc_tag = 0
    /\ dev_acc_lemsense = 0
    /\ rates = <<>>
    /\ calls = {}
    /\ counts = NoCounts

\* (variants: one of the two adjustments is missing)
PostProcessArgsKeepEpochs(a) ==
    [a EXCEPT !.separate_rnn = IF a.separate_embed THEN TRUE ELSE @]

PostProcessArgsKeepRnn(a) ==
    [a EXCEPT !.epochs = IF a.only_eval THEN 1 ELSE @]

\* if args.separate_embed: args.separate_rnn = True
\* if args.only_eval: args.epochs = 1
PostProcessArgs(a) ==
    [a EXCEPT !.separate_rnn = IF a.separate_embed THEN TRUE ELSE @,
              !.epochs = IF a.only_eval THEN 1 ELSE @]

PostProcess ==
    /\ pc = "parsed"
    /\ args' = PostProcessArgs(args)
    /\ pc' = "post"
    /\ UNCHANGED <<tags_codec, graph, ep, rate, dev_best, dev_acc_tag,
                   dev_acc_lemsense, argv, rates, calls, counts>>
    /\ UNCHANGED netVars

\* The tag codec constructed for a tag type; "ValueError" when main raises
TagCodec(tag_type) ==
    IF tag_type = "char" THEN "CharTags"
    ELSE IF tag_type = "whole" THEN "WholeTags"
    ELSE "ValueError"

SelectTagCodec ==
    /\ pc = "post"
    /\ IF TagCodec(args.tag_type) = "ValueError"
       THEN pc' = "error" /\ UNCHANGED tags_codec
       ELSE pc' = "codec" /\ tags_codec' = TagCodec(args.tag_type)
    /\ UNCHANGED <<args, graph, ep, rate, dev_best, dev_acc_tag,
                   dev_acc_lemsense, argv, rates, calls, counts>>
    /\ UNCHANGED netVars

\* network.construct(args, ...), dev_best = 0, and the loop is entered
Construct ==
    /\ pc = "codec"
    /\ graph' = ConstructGraph(args, tags_codec)
    /\ dev_best' = 0
    /\ ep' = 0
    /\ pc' = "loop"
    /\ UNCHANGED <<args, tags_codec, rate, dev_acc_tag, dev_acc_lemsense,
                   argv, rates, calls, counts>>
    /\ UNCHANGED netVars

\* (variant: the first drop does not quarter the rate)
RateLateDrop(a, e) ==
    IF a.drop_rate_after # 0 /\ a.drop_rate_after <= e
    THEN RatMul(a.learning_rate,
                QuarterPow((e - a.drop_rate_after) \div DropPeriod))
    ELSE a.learning_rate

\* The learning rate of epoch e
Rate(a, e) ==
    IF a.drop_rate_after # 0 /\ a.drop_rate_after <= e
    THEN RatMul(a.learning_rate,
                QuarterPow(1 + ((e - a.drop_rate_after) \div DropPeriod)))
    ELSE a.learning_rate

Called(op, obj, e) == <<op, obj, e>>

Count(c, op, n) == [c EXCEPT ![op] = @ + n]

\* The head of the loop body: the rate, and network.train_epoch
TrainEpoch ==
    /\ pc = "loop"
    /\ ep < args.epochs
    /\ rate' = Rate(args, ep)
    /\ IF ~args.only_eval
       THEN /\ rates' = Append(rates, rate')
            /\ calls' = {Called("train_epoch", "train", ep)}
            /\ counts' = Count(counts, "train_epoch", 1)
       ELSE /\ calls' = {}
            /\ UNCHANGED <<rates, counts>>
    /\ pc' = "evaluate"
    /\ UNCHANGED <<args, tags_codec, graph, ep, dev_best, dev_acc_tag,
                   dev_acc_lemsense, argv>>
    /\ UNCHANGED netVars

\* network.evaluate("dev", dev, args): any accuracies
Evaluate ==
    /\ pc = "evaluate"
    /\ \E t \in 0..AccLevels, l \in 0..AccLevels :
          /\ dev_acc_tag' = t
          /\ dev_acc_lemsense' = l
    /\ calls' = calls \cup {Called("evaluate", "dev", ep)}
    /\ counts' = Count(counts, "evaluate", 1)
    /\ pc' = "save"
    /\ UNCHANGED <<args, tags_codec, graph, ep, rate, dev_best, argv, rates>>
    /\ UNCHANGED netVars

\* dev_acc_tag + dev_acc_lemsense > dev_best or ep == args.epochs - 1
BestOrLast(a, t, l, best, e) == t + l > best \/ e = a.epochs - 1

\* (variant: --no_save_net is ignored)
SavesNetAlways(a) == ~a.only_eval

\* not args.no_save_net and not args.only_eval
SavesNet(a) == ~a.no_save_net /\ ~a.only_eval

SaveAndPredict ==
    /\ pc = "save"
    /\ IF BestOrLast(args, dev_acc_tag, dev_acc_lemsense, dev_best, ep)
       THEN /\ calls' = calls
                  \cup (IF SavesNet(args)
                        THEN {Called("save", "checkpoint", ep)} ELSE {})
                  \cup {Called("predict", d, ep) : d \in Datasets}
            /\ counts' = Count(Count(counts, "save",
                                     IF SavesNet(args) THEN 1 ELSE 0),
                               "predict", Cardinality(Datasets))
       ELSE UNCHANGED <<calls, counts>>
    /\ pc' = "best"
    /\ UNCHANGED <<args, tags_codec, graph, ep, rate, dev_best, dev_acc_tag,
                   dev_acc_lemsense, argv, rates>>
    /\ UNCHANGED netVars

Max(a, b) == IF a >= b THEN a ELSE b

\* dev_best = max(dev_best, dev_acc_tag + dev_acc_lemsense); next epoch
UpdateBest ==
    /\ pc = "best"
    /\ dev_best' = Max(dev_best, dev_acc_tag + dev_acc_lemsense)
    /\ ep' = ep + 1
    /\ pc' = "loop"
    /\ UNCHANGED <<args, tags_codec, graph, rate, dev_acc_tag,
                   dev_acc_lemsense, argv, rates, calls, counts>>
    /\ UNCHANGED netVars

\* range(args.epochs) is exhausted
LoopExit ==
    /\ pc = "loop"
    /\ ep >= args.epochs
    /\ pc' = "done"
    /\ UNCHANGED <<args, tags_codec, graph, ep, rate, dev_best, dev_acc_tag,
                   dev_acc_lemsense, argv, rates, calls, counts>>
    /\ UNCHANGED netVars

\* The command lines of the training runs: the network arguments keep
\* their defaults
TrainArguments ==
    {[DefaultArgs EXCEPT !.epochs = e, !.drop_rate_after = d,
                         !.learning_rate = lr, !.no_save_net = n,
                         !.only_eval = o] :
        e \in 0..MaxEpochs, d \in 0..MaxDropAfter, lr \in LearningRates,
        n \in BOOLEAN, o \in BOOLEAN}

Init == InitMain(TrainArguments)

Next ==
    \/ PostProcess
    \/ SelectTagCodec
    \/ Construct
    \/ TrainEpoch
    \/ Evaluate
    \/ SaveAndPredict
    \/ UpdateBest
    \/ LoopExit

Spec == Init /\ [][Next]_vars

\* The command lines that vary the network: the training arguments keep
\* their defaults, and the model stops when the training loop is reached
NetworkArguments ==
    {[DefaultArgs EXCEPT !.separate_embed = se, !.separate_rnn = sr,
                         !.tags_to_lemmas = tl, !.builtin_sense = bs,
                         !.tag_signal_dropout = sd, !.tag_type = tt] :
        se \in BOOLEAN, sr \in BOOLEAN, tl \in BOOLEAN, bs \in BOOLEAN,
        sd \in {None, Some(Rat(1, 2))}, tt \in TagTypeChoices}

InitConstruct == InitMain(NetworkArguments)

NextConstruct ==
    \/ PostProcess
    \/ SelectTagCodec
    \/ Construct

SpecConstruct == InitConstruct /\ [][NextConstruct]_vars

----------------------------------------------------------------------------
(* The learning-rate schedule *)

\* C5: when drop_rate_after >= 1, the rate passed to train_epoch in epoch
\* e is learning_rate for e < drop_rate_after and learning_rate *
\* 0.25^(1 + (e - drop_rate_after) div 10) from then on; the rates never
\* increase, and from one epoch to the next the rate is multiplied by 1/4
\* exactly when e - drop_rate_after is a multiple of 10 and is unchanged
\* otherwise.
C5_RateSchedule ==
    argv.drop_rate_after >= 1 =>
        \A i \in 1..Len(rates) :
            LET e == i - 1
                dra == argv.drop_rate_after
                lr == argv.learning_rate
            IN  /\ e < dra => RatEq(rates[i], lr)
                /\ e >= dra =>
                      RatEq(RatMul(rates[i],
                                   Rat(Pow(4, 1 + ((e - dra) \div 10)), 1)),
                            lr)
                /\ i > 1 => RatLeq(rates[i], rates[i - 1])
                /\ (i > 1 /\ e >= dra) =>
                      IF (e - dra) % 10 = 0
                      THEN RatEq(RatMul(rates[i], Rat(4, 1)), rates[i - 1])
                      ELSE RatEq(rates[i], rates[i - 1])
                /\ (i > 10 /\ e - 10 >= dra) =>
                      RatEq(RatMul(rates[i], Rat(4, 1)), rates[i - 10])

\* The rate has been quartered twice: at drop_rate_after and 10 epochs on
C5_Witness ==
    /\ argv.drop_rate_after >= 1
    /\ Len(rates) >= argv.drop_rate_after + 11
    /\ RatEq(RatMul(rates[Len(rates)], Rat(16, 1)), argv.learning_rate)

----------------------------------------------------------------------------
(* --only_eval and --no_save_net *)

\* C6: with --only_eval, whatever --epochs was given, train_epoch is never
\* called and no checkpoint is saved, the dev set is evaluated at most
\* once and each prediction file written at most once, every call is made
\* in epoch 0, and when main ends the dev set has been evaluated exactly
\* once and the dev and the test prediction file written exactly once.
C6_OnlyEval ==
    argv.only_eval =>
        /\ counts.train_epoch = 0
        /\ counts.save = 0
        /\ counts.evaluate <= 1
        /\ counts.predict <= 2
        /\ \A c \in calls : c[3] = 0
        /\ pc \in {"best", "done"} =>
              /\ counts.evaluate = 1
              /\ counts.predict = 2
              /\ calls = {<<"evaluate", "dev", 0>>, <<"predict", "dev", 0>>,
                          <<"predict", "test", 0>>}

\* main has ended a run with --only_eval and --epochs greater than 1
C6_Witness ==
    /\ argv.only_eval
    /\ argv.epochs > 1
    /\ pc = "done"

\* C7: in epoch ep a checkpoint is saved iff (dev_acc_tag +
\* dev_acc_lemsense > dev_best or ep is the last epoch) and neither
\* no_save_net nor only_eval is set; with --no_save_net no checkpoint is
\* ever saved; the prediction files are written iff dev_acc_tag +
\* dev_acc_lemsense > dev_best or ep is the last epoch, whatever the flag.
C7_CheckpointSaved ==
    /\ argv.no_save_net => counts.save = 0
    /\ pc = "best" =>
          LET better == dev_acc_tag + dev_acc_lemsense > dev_best
                        \/ ep = args.epochs - 1
          IN  /\ <<"save", "checkpoint", ep>> \in calls
                    <=> (better /\ ~argv.no_save_net /\ ~argv.only_eval)
              /\ \A d \in {"dev", "test"} :
                    <<"predict", d, ep>> \in calls <=> better

\* A checkpoint has been saved in an epoch that is not the last one
C7_Witness ==
    /\ pc = "best"
    /\ ep < args.epochs - 1
    /\ <<"save", "checkpoint", ep>> \in calls

----------------------------------------------------------------------------
(* The network's arguments and graph *)

\* C8: after the argument post-processing separate_embed implies
\* separate_rnn, and in the network constructed with separate_embed
\* word_rnn_outputs is gathered from the "lemmas" RNN and depends on
\* neither the "tags" nor the "common" RNN.
C8_SeparateEmbedImpliesRnn ==
    /\ pc # "parsed" => (args.separate_embed => args.separate_rnn)
    /\ (pc = "loop" /\ argv.separate_embed) =>
          /\ {e[2] : e \in {f \in graph : f[1] = <<"word_rnn_outputs", 0>>}}
                = {<<"compute_rnn", "lemmas">>}
          /\ ReachAvoiding({<<"word_rnn_outputs", 0>>}, graph, {})
                \cap {<<"compute_rnn", "tags">>, <<"compute_rnn", "common">>}
                = {}

\* A network constructed with --separate_embed and without --separate_rnn
C8_Witness ==
    /\ pc = "loop"
    /\ argv.separate_embed
    /\ ~argv.separate_rnn

\* C9: for every --tag_type the parser accepts, main constructs the
\* corresponding tag codec and reaches the network construction without
\* raising an error.
C9_EveryTagTypeConstructs ==
    pc \notin {"parsed", "post"} =>
        /\ pc # "error"
        /\ tags_codec = (CASE argv.tag_type = "char" -> "CharTags"
                           [] argv.tag_type = "dict" -> "DictTags"
                           [] argv.tag_type = "whole" -> "WholeTags")

\* C10: in the constructed network no path from the lemma loss or the
\* sense loss that avoids the stop_gradient node reaches tag_outputs, a
\* tag output layer or its parameters, while the tag loss (and so the
\* total loss) reaches the parameters of every tag output layer.
C10_TagOutputsGradientStopped ==
    pc = "loop" =>
        LET stopped == {<<"stop_gradient", 0>>}
            fromLemSense ==
                ReachAvoiding({<<"loss_lem", 0>>, <<"loss_sense", 0>>},
                              graph, stopped)
        IN  /\ <<"tag_outputs", 0>> \notin fromLemSense
            /\ \A i \in 1..NumHeads(tags_codec) :
                  /\ <<"output_layer", i>> \notin fromLemSense
                  /\ <<"output_layer_params", i>> \notin fromLemSense
                  /\ <<"output_layer_params", i>>
                        \in ReachAvoiding({<<"loss_tag", 0>>}, graph, stopped)
                  /\ <<"output_layer_params", i>>
                        \in ReachAvoiding({<<"loss", 0>>}, graph, stopped)

\* A network in which the lemma loss and the sense loss both depend on
\* tag_outputs (through the stop_gradient node)
C10_Witness ==
    /\ pc = "loop"
    /\ <<"tag_outputs", 0>> \in ReachAvoiding({<<"loss_lem", 0>>}, graph, {})
    /\ <<"tag_outputs", 0>> \in ReachAvoiding({<<"loss_sense", 0>>}, graph, {})

\* The tensors a node of the graph is computed from
InputsOf(n, g) == {e[2] : e \in {f \in g : f[1] = n}}

\* The tagger's outputs: tag_outputs, predictions and the output layers
TaggerOutputs(codec) ==
    {N("tag_outputs"), N("predictions")}
    \cup {<<"output_layer", i>> : i \in Heads(codec)}

\* The tensors the tag encoder for the lemmatizer computes
TagEncoderNodes ==
    {N("stop_gradient"), N("tag_features_dense"), N("tag_features_dropout"),
     N("tag_features_gather"), N("tag_signal_dropout")}

\* The consumers of tag_features: the two decoder cells and, unless the
\* sense is built in, the sense layer
TagFeatureConsumers(a) ==
    {N("train_cell"), N("pred_cell")}
    \cup (IF a.builtin_sense THEN {} ELSE {N("sense_layer")})

\* C11: without --tags_to_lemmas the tag features given to the decoder
\* cells and to the sense layer are the zeros tensor, whose only inputs
\* are the dimensions words_count and rnn_cell_dim of its shape, and
\* neither the lemma predictions nor the sense prediction depends on any
\* output of the tagger; with --tags_to_lemmas the tag features are an
\* output of the tag encoder, which is computed from tag_outputs.
C11_TagSignalSwitch ==
    pc = "loop" =>
        LET consumers == TagFeatureConsumers(args)
            predicted ==
                ReachAvoiding({<<"lemma_predictions", 0>>,
                               <<"sense_prediction", 0>>}, graph, {})
        IN  IF ~argv.tags_to_lemmas
            THEN /\ \A n \in consumers :
                       /\ <<"tag_features_zeros", 0>> \in InputsOf(n, graph)
                       /\ InputsOf(n, graph) \cap TagEncoderNodes = {}
                 /\ InputsOf(<<"tag_features_zeros", 0>>, graph)
                       = {<<"words_count", 0>>, <<"rnn_cell_dim", 0>>}
                 /\ <<"tag_outputs", 0>>
                       \notin ReachAvoiding({<<"tag_features_zeros", 0>>},
                                            graph, {})
                 /\ predicted \cap TaggerOutputs(tags_codec) = {}
            ELSE \A n \in consumers :
                     /\ <<"tag_features_zeros", 0>> \notin InputsOf(n, graph)
                     /\ \E f \in InputsOf(n, graph) \cap TagEncoderNodes :
                           <<"tag_outputs", 0>>
                               \in ReachAvoiding({f}, graph, {})

\* A network constructed without --tags_to_lemmas whose sense layer and
\* decoder cells read the zeros tensor, while the tag encoder is built
C11_Witness ==
    /\ pc = "loop"
    /\ ~argv.tags_to_lemmas
    /\ ~argv.builtin_sense
    /\ <<"tag_features_zeros", 0>>
          \in InputsOf(<<"sense_layer", 0>>, graph)
             \cap InputsOf(<<"train_cell", 0>>, graph)
    /\ <<"tag_features_gather", 0>> \in {e[1] : e \in graph}

----------------------------------------------------------------------------
(* The lemma alphabet and the target sequences *)

\* Strings are sequences of characters
PadStr == <<"<", "p", "a", "d", ">">>

UnkStr == <<"<", "u", "n", "k", ">">>

BowStr == <<"<", "b", "o", "w", ">">>

EowStr == <<"<", "e", "o", "w", ">">>

\* train.factors[train.LEMMAS].alphabet: the id of a character is its
\* 0-based position
Alphabet == <<PadStr, UnkStr, BowStr, EowStr, <<"a">>, <<"b">>>>

\* alphabet[id]
AlphabetAt(id) == Alphabet[id + 1]

\* alphabet_map[string]
AlphabetMap(str) == CHOOSE id \in 0..(Len(Alphabet) - 1) : AlphabetAt(id) = str

pad == AlphabetMap(PadStr)

bow == AlphabetMap(BowStr)

eow == AlphabetMap(EowStr)

\* The ids of the characters lemmas are written in
LemmaChars == {AlphabetMap(<<"a">>), AlphabetMap(<<"b">>)}

\* lem_num_chars: the ids the decoder can predict
LemNumChars == Len(Alphabet)

DecoderIds == 0..(LemNumChars - 1)

MaxLen == 2          \* the padded width of the gold lemmas of a batch

Words == 1..2        \* the words of the batch

\* A gold lemma of length n padded with <pad> to width MaxLen
PaddedRow(chars) ==
    [i \in 1..MaxLen |-> IF i <= Len(chars) THEN chars[i] ELSE pad]

GoldLemmas == UNION {[1..n -> LemmaChars] : n \in 0..MaxLen}

\* A network that main has constructed, with the arguments a
InitNetwork(arguments) ==
    /\ args \in {PostProcessArgs(a) : a \in arguments}
    /\ argv = args
    /\ pc = "loop"
    /\ tags_codec = TagCodec(args.tag_type)
    /\ graph = ConstructGraph(args, tags_codec)
    /\ ep = 0
    /\ rate = Rat(0, 1)
    /\ dev_best = 0
    /\ dev_acc_tag = 0
    /\ dev_acc_lemsense = 0
    /\ rates = <<>>
    /\ calls = {}
    /\ counts = NoCounts

\* tf.reverse_sequence(row, n, 1): the first n entries are reversed
ReverseSequence(row, n) ==
    [i \in 1..Len(row) |-> IF i <= n THEN row[n + 1 - i] ELSE row[i]]

\* tf.pad(row, [[0, 0], [1, 0]], constant_values=v)
PadFront(row, v) == <<v>> \o row

\* (variant: the second reverse_sequence uses the length before the
\* increment)
AddEowOldLength(row, n) ==
    ReverseSequence(PadFront(ReverseSequence(row, n), eow), n)

\* Lines 121-124 on one row: eow is put after the n gold characters
AddEow(row, n) ==
    ReverseSequence(PadFront(ReverseSequence(row, n), eow), n + 1)

\* (variant: the gold sequence is fed unshifted)
TargetSeqsBowUnshifted(row) == row

\* tf.pad(target_seqs, [[0, 0], [1, 0]], constant_values=bow)[:, :-1]
TargetSeqsBow(row) == SubSeq(PadFront(row, bow), 1, Len(row))

RECURSIVE MaxOf(_)
MaxOf(S) ==
    IF S = {} THEN 0
    ELSE LET x == CHOOSE y \in S : TRUE
         IN  Max(x, MaxOf(S \ {x}))

Range(f) == {f[x] : x \in DOMAIN f}

----------------------------------------------------------------------------
(* decode_lemmas(): the training decoder (TrainingHelper, BasicDecoder,    *)
(* dynamic_decode)                                                         *)

InitTeacher ==
    /\ InitNetwork({DefaultArgs})
    /\ IdleInfer
    /\ IdlePredict
    /\ IdleSmooth
    /\ IdleEvaluate
    /\ tpc = "fed"
    /\ \E gold \in [Words -> GoldLemmas] :
          /\ gold_seqs = [w \in Words |-> PaddedRow(gold[w])]
          /\ gold_lens = [w \in Words |-> Len(gold[w])]
    /\ target_seqs = gold_seqs
    /\ target_lens = gold_lens
    /\ target_seqs_bow = <<>>
    /\ time = 0
    /\ train_inputs = <<>>
    /\ sample_ids = <<>>

\* Add eow at the end (lines 120-124)
AppendEow ==
    /\ tpc = "fed"
    /\ target_seqs' = [w \in Words |-> AddEow(target_seqs[w], target_lens[w])]
    /\ target_lens' = [w \in Words |-> target_lens[w] + 1]
    /\ tpc' = "eow"
    /\ UNCHANGED <<gold_seqs, gold_lens, target_seqs_bow, time, train_inputs,
                   sample_ids>>
    /\ UNCHANGED <<mainVars, inferVars, predictVars, smoothVars,
                   evalVars>>

\* target_seqs_bow, and TrainingHelper.initialize: the inputs of step 0
\* are column 0 of target_seqs_bow
ShiftBow ==
    /\ tpc = "eow"
    /\ target_seqs_bow' = [w \in Words |-> TargetSeqsBow(target_seqs[w])]
    /\ train_inputs' = [w \in Words |-> <<target_seqs_bow'[w][1]>>]
    /\ time' = 0
    /\ tpc' = "decode"
    /\ UNCHANGED <<gold_seqs, gold_lens, target_seqs, target_lens, sample_ids>>
    /\ UNCHANGED <<mainVars, inferVars, predictVars, smoothVars,
                   evalVars>>

\* dynamic_decode runs until time >= sequence_length for every word
AllFinished(t) == \A w \in Words : t >= target_lens[w]

\* One step of the training decoder: the cell reads the inputs handed out
\* last and yields a prediction for every word (any id); the helper hands
\* out the next column of target_seqs_bow unless every word is finished
TrainStep ==
    /\ tpc = "decode"
    /\ ~AllFinished(time)
    /\ sample_ids' \in [Words -> DecoderIds]
    /\ time' = time + 1
    /\ train_inputs' =
          IF AllFinished(time + 1) THEN train_inputs
          ELSE [w \in Words |->
                    Append(train_inputs[w], target_seqs_bow[w][time + 2])]
    /\ UNCHANGED <<tpc, gold_seqs, gold_lens, target_seqs, target_lens,
                   target_seqs_bow>>
    /\ UNCHANGED <<mainVars, inferVars, predictVars, smoothVars,
                   evalVars>>

TrainDecoded ==
    /\ tpc = "decode"
    /\ AllFinished(time)
    /\ tpc' = "done"
    /\ UNCHANGED <<gold_seqs, gold_lens, target_seqs, target_lens,
                   target_seqs_bow, time, train_inputs, sample_ids>>
    /\ UNCHANGED <<mainVars, inferVars, predictVars, smoothVars,
                   evalVars>>

NextTeacher ==
    \/ AppendEow
    \/ ShiftBow
    \/ TrainStep
    \/ TrainDecoded

SpecTeacher == InitTeacher /\ [][NextTeacher]_vars

\* C1: for every word and every step t of the training decoder the input
\* is bow when t = 0 and the gold token target_seqs[t - 1] when t > 0,
\* whatever the decoder predicted; every step up to the longest target of
\* the batch has its input; target_seqs_bow is as wide as target_seqs.
C1_TeacherForcing ==
    tpc \in {"decode", "done"} =>
        \A w \in Words :
            /\ Len(target_seqs_bow[w]) = Len(target_seqs[w])
            /\ Len(train_inputs[w]) >= time
            /\ tpc = "done" =>
                  Len(train_inputs[w]) = MaxOf(Range(target_lens))
            /\ \A i \in 1..Len(train_inputs[w]) :
                  train_inputs[w][i] =
                      IF i = 1 THEN AlphabetMap(BowStr)
                      ELSE target_seqs[w][i - 1]

\* The decoder has predicted something else than the gold token, and the
\* input handed out for the next step is the gold token
C1_Witness ==
    /\ tpc = "decode"
    /\ time >= 1
    /\ \E w \in Words :
          /\ Len(train_inputs[w]) = time + 1
          /\ sample_ids[w] # target_seqs[w][time]
          /\ train_inputs[w][time + 1] = target_seqs[w][time]
          /\ target_seqs[w][time] \in LemmaChars

\* C13: after the end-of-word appending every target row is one entry
\* wider than the fed row; for a word whose gold lemma has length L the
\* first L entries are the gold characters in their order, entry L
\* (counted from 0) is eow, the entries after it are the padding that
\* followed the gold characters, and target_lens is L + 1.
C13_EowAppended ==
    tpc # "fed" =>
        \A w \in Words :
            LET L == gold_lens[w]
                W == Len(gold_seqs[w])
            IN  /\ L \in 0..W
                /\ Len(target_seqs[w]) = W + 1
                /\ \A i \in 1..L : target_seqs[w][i] = gold_seqs[w][i]
                /\ target_seqs[w][L + 1] = AlphabetMap(EowStr)
                /\ \A i \in (L + 2)..(W + 1) :
                      /\ target_seqs[w][i] = gold_seqs[w][i - 1]
                      /\ target_seqs[w][i] = AlphabetMap(PadStr)
                /\ target_lens[w] = L + 1

\* eow has been appended in a batch with a lemma of two different
\* characters that fills the padded width and a shorter lemma followed
\* by padding
C13_Witness ==
    /\ tpc = "eow"
    /\ \E w \in Words :
          /\ gold_lens[w] = Len(gold_seqs[w])
          /\ gold_seqs[w][1] # gold_seqs[w][2]
          /\ target_seqs[w][gold_lens[w] + 1] = AlphabetMap(EowStr)
    /\ \E w \in Words :
          /\ gold_lens[w] = 1
          /\ target_seqs[w] = <<gold_seqs[w][1], AlphabetMap(EowStr),
                                AlphabetMap(PadStr)>>

----------------------------------------------------------------------------
(* decode_lemmas(): the predicting decoder.  The network's scores are any  *)
(* values: a score is 0 for a continuation of probability zero and one of  *)
(* StepScores otherwise, the higher the better.                            *)

MaxBeams == 2        \* --beams ranges over 0..MaxBeams
MaxIter == 3         \* maximum_iterations of dynamic_decode

\* The ids the predicting decoder gives a probability above zero
InferIds == LemmaChars \cup {eow}

StepScores == {1, 2}

BeamArguments ==
    {[DefaultArgs EXCEPT !.beams = b] :
        b \in {None} \cup {Some(k) : k \in 0..MaxBeams}}

InitInfer ==
    /\ InitNetwork(BeamArguments)
    /\ IdleTeacher
    /\ IdlePredict
    /\ IdleSmooth
    /\ IdleEvaluate
    /\ ipc = "start"
    /\ beams = <<>>
    /\ candidates = <<>>
    /\ itime = 0
    /\ lemma_predictions = <<>>
    /\ lemma_prediction_lengths = 0

\* A partial sequence: its ids, its score, whether it has produced eow,
\* and the candidate of the last step it was taken from
Hyp(ids, score, finished, cand) ==
    [ids |-> ids, score |-> score, finished |-> finished, cand |-> cand]

\* beam_width of the predicting decoder: a single sequence when
\* "not args.beams"
BeamWidth(a) == IF TruthyInt(a.beams) THEN a.beams.val ELSE 1

\* The start of decoding: every sequence holds only the start token bow
\* (not part of the output); with beams, only the first one is alive
StartDecoding ==
    /\ ipc = "start"
    /\ beams' = [j \in 1..BeamWidth(args) |->
                    Hyp(<<>>, IF j = 1 THEN 2 ELSE 0, FALSE, 0)]
    /\ itime' = 0
    /\ ipc' = "decode"
    /\ UNCHANGED <<candidates, lemma_predictions, lemma_prediction_lengths>>
    /\ UNCHANGED <<mainVars, teacherVars, predictVars, smoothVars,
                   evalVars>>

Ids == <<eow, AlphabetMap(<<"a">>), AlphabetMap(<<"b">>)>>

\* The continuations of the kept sequences, in the order of the flattened
\* [beam, id] scores; sc gives the network's score of the continuations of
\* the unfinished sequences.  A finished sequence continues with eow only
\* and keeps its score.
Continuations(bs, sc) ==
    [c \in 1..(Len(bs) * Len(Ids)) |->
        LET j == ((c - 1) \div Len(Ids)) + 1
            v == Ids[((c - 1) % Len(Ids)) + 1]
            score == IF bs[j].score = 0 THEN 0
                     ELSE IF bs[j].finished
                          THEN (IF v = eow THEN bs[j].score ELSE 0)
                          ELSE sc[j][v]
        IN  Hyp(Append(bs[j].ids, v), score, bs[j].finished \/ v = eow, c)]

\* Is candidate c ahead of candidate d: a higher score, or the same score
\* and a lower index
Ahead(cs, c, d) ==
    cs[c].score > cs[d].score \/ (cs[c].score = cs[d].score /\ c <= d)

\* top_k: the k best candidates among those of S, best first
RECURSIVE TopK(_, _, _)
TopK(cs, S, k) ==
    IF k = 0 \/ S = {} THEN <<>>
    ELSE LET best == CHOOSE c \in S : \A d \in S : Ahead(cs, c, d)
         IN  <<cs[best]>> \o TopK(cs, S \ {best}, k - 1)

\* The sequences the cell's scores matter for
Unfinished(bs) ==
    {j \in 1..Len(bs) : bs[j].score # 0 /\ ~bs[j].finished}

Decoded(bs, t) == (\A j \in 1..Len(bs) : bs[j].finished) \/ t >= MaxIter

\* One step of BeamSearchDecoder: beam_width continuations are kept
BeamStep ==
    /\ ipc = "decode"
    /\ TruthyInt(args.beams)
    /\ ~Decoded(beams, itime)
    /\ \E sc \in [Unfinished(beams) -> [InferIds -> StepScores]] :
          /\ candidates' = Continuations(beams, sc)
          /\ beams' = TopK(candidates', DOMAIN candidates', BeamWidth(args))
    /\ itime' = itime + 1
    /\ UNCHANGED <<ipc, lemma_predictions, lemma_prediction_lengths>>
    /\ UNCHANGED <<mainVars, teacherVars, predictVars, smoothVars,
                   evalVars>>

\* One step of the greedy decoder: the best id (any) continues the
\* one sequence
GreedyStep ==
    /\ ipc = "decode"
    /\ ~TruthyInt(args.beams)
    /\ ~Decoded(beams, itime)
    /\ \E v \in InferIds :
          /\ candidates' = <<Hyp(Append(beams[1].ids, v), 2, v = eow, 1)>>
          /\ beams' = candidates'
    /\ itime' = itime + 1
    /\ UNCHANGED <<ipc, lemma_predictions, lemma_prediction_lengths>>
    /\ UNCHANGED <<mainVars, teacherVars, predictVars, smoothVars,
                   evalVars>>

\* find_first(vec, val) for one word: the 0-based position of the first
\* val, or the number of steps when there is none (the scan of line 32)
RECURSIVE FindFirstScan(_, _, _, _)
FindFirstScan(row, val, ix, poss) ==
    IF ix >= Len(row) THEN poss
    ELSE LET eqs == IF row[ix + 1] = val THEN 1 ELSE 0
             m == ix * eqs + Len(row) * (1 - eqs)
         IN  FindFirstScan(row, val, ix + 1, IF m < poss THEN m ELSE poss)

FindFirst(row, val) == FindFirstScan(row, val, 0, Len(row))

\* (variant: the last of the final beams is reported)
LemmaPredictionsLastBeam(bs) == bs[Len(bs)].ids

\* dec_outputs.predicted_ids[:, :, 0], and pred_outputs of the greedy
\* decoder
LemmaPredictions(bs) == bs[1].ids

\* The end of dynamic_decode: the predictions and their lengths
FinishDecoding ==
    /\ ipc = "decode"
    /\ Decoded(beams, itime)
    /\ lemma_predictions' = LemmaPredictions(beams)
    /\ lemma_prediction_lengths' =
          IF TruthyInt(args.beams)
          THEN 1 + FindFirst(lemma_predictions', eow)
          ELSE itime
    /\ ipc' = "done"
    /\ UNCHANGED <<beams, candidates, itime>>
    /\ UNCHANGED <<mainVars, teacherVars, predictVars, smoothVars,
                   evalVars>>

NextInfer ==
    \/ StartDecoding
    \/ BeamStep
    \/ GreedyStep
    \/ FinishDecoding

SpecInfer == InitInfer /\ [][NextInfer]_vars

----------------------------------------------------------------------------
(* Network.predict: the lemmas of one batch *)

MaxBatchWords == 3   \* the number of words of the batch

\* Vocabularies of senses; an id is a 0-based position
SenseVocabularies ==
    {<<PadStr, UnkStr, <<"1">>>>,
     <<PadStr, <<>>, <<"2">>>>,
     <<<<"1">>, PadStr, <<>>>>}

\* The rows and lengths the predicting decoder yields for a word: a lemma
\* ended by eow, the empty lemma, and a lemma that is not ended
DecoderOutputs ==
    {<<<<AlphabetMap(<<"a">>), eow>>, 2>>,
     <<<<eow, eow>>, 1>>,
     <<<<AlphabetMap(<<"b">>), AlphabetMap(<<"a">>)>>, 3>>}

RECURSIVE Compositions(_)
Compositions(n) ==
    IF n = 0 THEN {<<>>}
    ELSE UNION {{<<first>> \o rest : rest \in Compositions(n - first)} :
                first \in 1..n}

SenseArguments == {[DefaultArgs EXCEPT !.builtin_sense = b] : b \in BOOLEAN}

InitPredict ==
    /\ InitNetwork(SenseArguments)
    /\ IdleTeacher
    /\ IdleInfer
    /\ IdleSmooth
    /\ IdleEvaluate
    /\ ppc = "batch"
    /\ sentence_lens \in UNION {Compositions(n) : n \in 1..MaxBatchWords}
    /\ sense_words \in SenseVocabularies
    /\ lp = <<>>
    /\ lpl = <<>>
    /\ senses = <<>>
    /\ lemmas = <<>>

RECURSIVE SumSeq(_)
SumSeq(q) == IF q = <<>> THEN 0 ELSE Head(q) + SumSeq(Tail(q))

\* compute_sense(): tf.zeros with --builtin_sense, else the argmax of the
\* sense layer (any sense id)
SensePredictions(a, n, num_senses) ==
    IF a.builtin_sense THEN {[w \in 1..n |-> 0]}
    ELSE [1..n -> 0..(num_senses - 1)]

\* self.session.run([... lemma_predictions, lemma_prediction_lengths,
\* sense_prediction], ...): a row for each of the words of the batch
RunSession ==
    /\ ppc = "batch"
    /\ LET n == SumSeq(sentence_lens)
       IN  /\ \E out \in [1..n -> DecoderOutputs] :
                 /\ lp' = [w \in 1..n |-> out[w][1]]
                 /\ lpl' = [w \in 1..n |-> out[w][2]]
           /\ senses' \in SensePredictions(args, n, Len(sense_words))
    /\ ppc' = "run"
    /\ UNCHANGED <<sentence_lens, sense_words, lemmas>>
    /\ UNCHANGED <<mainVars, teacherVars, inferVars, smoothVars,
                   evalVars>>

\* ''.join(alphabet[row[j]] for j in range(n - 1))
RECURSIVE JoinAlphabet(_, _)
JoinAlphabet(row, n) ==
    IF n <= 0 THEN <<>>
    ELSE JoinAlphabet(row, n - 1) \o AlphabetAt(row[n])

\* (variant: an empty sense word is appended too)
SenseSuffixOfEmpty(a, sense, swords) ==
    IF ~a.builtin_sense /\ sense > 0 /\ swords[sense + 1] # PadStr
    THEN <<"-">> \o swords[sense + 1]
    ELSE <<>>

\* Lines 471-475: what is appended to the decoded lemma
SenseSuffix(a, sense, swords) ==
    IF ~a.builtin_sense
    THEN IF sense > 0 /\ swords[sense + 1] # <<>>
         THEN LET sword == swords[sense + 1]
              IN  IF sword # <<>> /\ sword # PadStr
                  THEN <<"-">> \o sword
                  ELSE <<>>
         ELSE <<>>
    ELSE <<>>

Drop(q, n) == SubSeq(q, n + 1, Len(q))

\* The loop over the sentences of the batch (lines 467-476): the first
\* `length` rows are the sentence's, and are then sliced off
RECURSIVE PredictSentences(_, _, _, _, _, _)
PredictSentences(a, lens, rows, rowlens, ss, swords) ==
    IF lens = <<>> THEN <<>>
    ELSE LET length == Head(lens)
         IN  <<[i \in 1..length |->
                  JoinAlphabet(rows[i], rowlens[i] - 1)
                  \o SenseSuffix(a, ss[i], swords)]>>
             \o PredictSentences(a, Tail(lens), Drop(rows, length),
                                 Drop(rowlens, length), Drop(ss, length),
                                 swords)

PredictBatch ==
    /\ ppc = "run"
    /\ lemmas' = PredictSentences(args, sentence_lens, lp, lpl, senses,
                                  sense_words)
    /\ ppc' = "done"
    /\ UNCHANGED <<sentence_lens, sense_words, lp, lpl, senses>>
    /\ UNCHANGED <<mainVars, teacherVars, inferVars, smoothVars,
                   evalVars>>

NextPredict ==
    \/ RunSession
    \/ PredictBatch

SpecPredict == InitPredict /\ [][NextPredict]_vars

\* The index in the batch of word i (from 1) of sentence si (from 1)
WordOf(si, i) == SumSeq(SubSeq(sentence_lens, 1, si - 1)) + i

\* C3: every lemma returned is the decoded string of its word, followed
\* by "-" and the sense word of the predicted sense s iff builtin_sense
\* is off, s > 0 and the sense word is neither empty nor "<pad>"; with
\* builtin_sense every sense prediction is 0 and nothing is appended.
C3_SenseSuffix ==
    /\ (ppc \in {"run", "done"} /\ argv.builtin_sense) =>
          \A w \in DOMAIN senses : senses[w] = 0
    /\ ppc = "done" =>
          /\ Len(lemmas) = Len(sentence_lens)
          /\ \A si \in DOMAIN sentence_lens :
                /\ Len(lemmas[si]) = sentence_lens[si]
                /\ \A i \in 1..sentence_lens[si] :
                      LET w == WordOf(si, i)
                          decoded == JoinAlphabet(lp[w], lpl[w] - 1)
                          sword == sense_words[senses[w] + 1]
                          appended ==
                              /\ ~argv.builtin_sense
                              /\ senses[w] > 0
                              /\ Len(sword) > 0
                              /\ sword # <<"<", "p", "a", "d", ">">>
                      IN  lemmas[si][i] =
                              IF appended THEN decoded \o <<"-">> \o sword
                              ELSE decoded

\* Two sentences have been predicted; a word of the second one has its
\* sense appended, and another word has a sense above 0 that is not
C3_Witness ==
    /\ ppc = "done"
    /\ Len(sentence_lens) = 2
    /\ ~argv.builtin_sense
    /\ \E i \in 1..sentence_lens[2] :
          /\ senses[WordOf(2, i)] > 0
          /\ lemmas[2][i] = <<"a", "-", "2">>
    /\ \E w \in DOMAIN senses :
          /\ senses[w] > 0
          /\ sense_words[senses[w] + 1] \in {<<>>, PadStr}

----------------------------------------------------------------------------
(* compute_tags(): the training targets of the tag heads for one word *)

MaxClasses == 3      \* a tag head has 1..MaxClasses classes
SmoothDen == 4       \* --label_smoothing ranges over 0, 1/SmoothDen, ..., 1

RatAdd(a, b) == Rat(a.num * b.den + b.num * a.den, a.den * b.den)

RatSub(a, b) == Rat(a.num * b.den - b.num * a.den, a.den * b.den)

\* A float divided by an integer
RatDiv(a, n) == Rat(a.num, a.den * n)

RECURSIVE RatSum(_, _)
RatSum(f, S) ==
    IF S = {} THEN Rat(0, 1)
    ELSE LET x == CHOOSE y \in S : TRUE
         IN  RatAdd(f[x], RatSum(f, S \ {x}))

SmoothArguments ==
    {[DefaultArgs EXCEPT !.label_smoothing = Rat(p, SmoothDen),
                         !.tag_type = tt] :
        p \in 0..SmoothDen, tt \in {"char", "whole"}}

InitSmooth ==
    /\ InitNetwork(SmoothArguments)
    /\ IdleTeacher
    /\ IdleInfer
    /\ IdlePredict
    /\ IdleEvaluate
    /\ spc = "fed"
    /\ num_tags \in [Heads(tags_codec) -> 1..MaxClasses]
    /\ tags \in [Heads(tags_codec) -> 0..(MaxClasses - 1)]
    /\ \A i \in Heads(tags_codec) : tags[i] < num_tags[i]
    /\ gold_labels = <<>>

\* tf.one_hot(label, depth)
OneHot(label, depth) ==
    [c \in 0..(depth - 1) |-> IF c = label THEN Rat(1, 1) ELSE Rat(0, 1)]

\* (variant: the uniform part is not divided by the number of classes)
GoldLabelsUndivided(smoothing, label, depth) ==
    IF smoothing.num # 0
    THEN [dense |-> TRUE, label |-> label,
          weights |-> [c \in 0..(depth - 1) |->
                          RatAdd(RatMul(OneHot(label, depth)[c],
                                        RatSub(Rat(1, 1), smoothing)),
                                 smoothing)]]
    ELSE [dense |-> FALSE, label |-> label, weights |-> <<>>]

\* Lines 200-204: the target of one head.  With smoothing it is the dense
\* vector one_hot * (1 - smoothing) + smoothing / depth; without, the
\* sparse loss is given the gold class itself
GoldLabels(smoothing, label, depth) ==
    IF smoothing.num # 0
    THEN [dense |-> TRUE, label |-> label,
          weights |-> [c \in 0..(depth - 1) |->
                          RatAdd(RatMul(OneHot(label, depth)[c],
                                        RatSub(Rat(1, 1), smoothing)),
                                 RatDiv(smoothing, depth))]]
    ELSE [dense |-> FALSE, label |-> label, weights |-> <<>>]

\* The loop over the tag heads (line 194)
SmoothLabels ==
    /\ spc = "fed"
    /\ gold_labels' = [i \in Heads(tags_codec) |->
                          GoldLabels(args.label_smoothing, tags[i],
                                     num_tags[i])]
    /\ spc' = "done"
    /\ UNCHANGED <<num_tags, tags>>
    /\ UNCHANGED <<mainVars, teacherVars, inferVars, predictVars,
                   evalVars>>

NextSmooth == SmoothLabels

SpecSmooth == InitSmooth /\ [][NextSmooth]_vars

\* C4: for every tag head with n classes and gold class g, with a
\* smoothing factor s = p/q strictly between 0 and 1 the target gives
\* g the weight (1 - s) + s/n and every other class s/n, and the weights
\* sum to exactly 1; with s = 0 the target is the gold class, unsmoothed.
C4_LabelSmoothing ==
    spc = "done" =>
        \A i \in DOMAIN num_tags :
            LET n == num_tags[i]
                g == tags[i]
                p == argv.label_smoothing.num
                q == argv.label_smoothing.den
                t == gold_labels[i]
            IN  /\ (0 < p /\ p < q) =>
                      /\ t.dense
                      /\ DOMAIN t.weights = 0..(n - 1)
                      /\ RatEq(t.weights[g], Rat((q - p) * n + p, q * n))
                      /\ \A c \in (0..(n - 1)) \ {g} :
                            RatEq(t.weights[c], Rat(p, q * n))
                      /\ RatEq(RatSum(t.weights, 0..(n - 1)), Rat(1, 1))
                /\ p = 0 => (~t.dense /\ t.label = g)

\* A head with three classes has been given a smoothed target
C4_Witness ==
    /\ spc = "done"
    /\ argv.label_smoothing = Rat(1, 4)
    /\ \E i \in DOMAIN num_tags :
          /\ num_tags[i] = 3
          /\ tags[i] = 1
          /\ gold_labels[i].dense
          /\ RatEq(gold_labels[i].weights[1], Rat(10, 12))
          /\ RatEq(gold_labels[i].weights[0], Rat(1, 12))

----------------------------------------------------------------------------
(* Network.evaluate: the metric accumulators.  A tf.metrics.mean keeps a   *)
(* total and a count; its value is total / count.  The lemmatizer gets    *)
(* every lemma (and every sense) of a batch right, or none.                *)

MaxSentences == 2    \* a dataset has 1..MaxSentences sentences
MaxBatchSize == 2    \* --batch_size ranges over 1..MaxBatchSize

\* The numbers of words a sentence can have
SentenceLengths == 1..2

Min(a, b) == IF a <= b THEN a ELSE b

RECURSIVE SumOver(_, _)
SumOver(f, S) ==
    IF S = {} THEN 0
    ELSE LET x == CHOOSE y \in S : TRUE
         IN  f[x] + SumOver(f, S \ {x})

\* self.tags at a word and at a padding position; head 1 is the whole tag
GoldTags(codec) == [h \in Heads(codec) |-> 1]

PadTags(codec) == [h \in Heads(codec) |-> 0]

\* self.predictions at one position: every head as the gold tag, only the
\* whole-tag head as the gold tag, no head as the gold tag
PredictedTags(codec) ==
    {[h \in Heads(codec) |-> 1],
     [h \in Heads(codec) |-> IF h = 1 THEN 1 ELSE 0],
     [h \in Heads(codec) |-> 0]}

\* args.tags.accuracy_mask(): [True] and [True] + [False] * taglen
AccuracyMask(codec) == [h \in Heads(codec) |-> h = 1]

EvalWords(codec) ==
    {[tags |-> GoldTags(codec), predictions |-> p] :
        p \in PredictedTags(codec)}

EvalSentences(codec) ==
    UNION {[1..n -> EvalWords(codec)] : n \in SentenceLengths}

EvalDatasets(codec) ==
    UNION {[1..n -> EvalSentences(codec)] : n \in 1..MaxSentences}

Accumulator(t, c) == [total |-> t, count |-> c]

\* The metrics Network.evaluate updates
MetricNames ==
    {"accuracy_tag", "accuracy_tags_compositional", "accuracy_lem",
     "accuracy_lemsense", "loss"}

\* What the accumulators hold when evaluate is called: nothing, or what
\* the last training batch left
StaleAccumulators ==
    {Accumulator(Rat(0, 1), Rat(0, 1)), Accumulator(Rat(1, 1), Rat(2, 1))}

\* The loss of a batch
BatchLosses == {Rat(1, 2)}

EvalArguments ==
    {[DefaultArgs EXCEPT !.tag_type = tt] : tt \in {"char", "whole"}}

InitEvaluate ==
    /\ InitNetwork(EvalArguments)
    /\ IdleTeacher
    /\ IdleInfer
    /\ IdlePredict
    /\ IdleSmooth
    /\ epc = "start"
    /\ dataset \in EvalDatasets(tags_codec)
    /\ batch_size \in 1..MaxBatchSize
    /\ permutation = [i \in 1..Len(dataset) |-> i]
    /\ \E acc \in StaleAccumulators : metrics = [m \in MetricNames |-> acc]
    /\ session_runs = <<>>
    /\ returned = <<>>

\* self.session.run(self.reset_metrics): the initializer of the metric
\* variables
ResetMetrics ==
    /\ epc = "start"
    /\ metrics' = [m \in MetricNames |-> Accumulator(Rat(0, 1), Rat(0, 1))]
    /\ session_runs' = Append(session_runs, "reset_metrics")
    /\ epc' = "batches"
    /\ UNCHANGED <<dataset, batch_size, permutation, returned>>
    /\ UNCHANGED <<mainVars, teacherVars, inferVars, predictVars,
                   smoothVars>>

\* dataset.next_batch(batch_size): the next batch_size sentences, or the
\* ones that are left
BatchPerm(perm, size) == SubSeq(perm, 1, Min(size, Len(perm)))

\* sentence_lens of the batch
BatchLens(d, bp) == [s \in 1..Len(bp) |-> Len(d[bp[s]])]

\* The positions of the batch: every sentence is as wide as the longest
Cells(lens) == (1..Len(lens)) \X (1..MaxOf(Range(lens)))

Padding(lens) == {c \in Cells(lens) : c[2] > lens[c[1]]}

\* tf.sequence_mask(self.sentence_lens, dtype=tf.float32)
SequenceMask(lens) ==
    [c \in Cells(lens) |-> IF c[2] <= lens[c[1]] THEN 1 ELSE 0]

\* self.tags of the batch
BatchTags(d, bp, codec) ==
    [c \in Cells(BatchLens(d, bp)) |->
        IF c[2] <= Len(d[bp[c[1]]]) THEN d[bp[c[1]]][c[2]].tags
        ELSE PadTags(codec)]

\* self.predictions of the batch; padded are the predictions at the
\* padding positions
BatchPredictions(d, bp, padded) ==
    [c \in Cells(BatchLens(d, bp)) |->
        IF c[2] <= Len(d[bp[c[1]]]) THEN d[bp[c[1]]][c[2]].predictions
        ELSE padded[c]]

\* tf.reduce_sum(weights)
SumWeights(weights) == SumOver(weights, DOMAIN weights)

\* tf.reduce_all(tf.logical_or(tf.equal(tags, predictions),
\* tf.logical_not(mask)), axis=2) at one position
AllEqualOrMasked(t, p, mask) == \A h \in DOMAIN t : t[h] = p[h] \/ ~mask[h]

\* correct_tag (lines 208-210)
CorrectTag(t, p, mask, weights) ==
    Rat(SumOver([c \in DOMAIN weights |->
                    (IF AllEqualOrMasked(t[c], p[c], mask) THEN 1 ELSE 0)
                    * weights[c]],
                DOMAIN weights),
        SumWeights(weights))

\* correct_tags_compositional (lines 211-212): every head is compared
CorrectTagsCompositional(t, p, weights) ==
    Rat(SumOver([c \in DOMAIN weights |->
                    (IF t[c] = p[c] THEN 1 ELSE 0) * weights[c]],
                DOMAIN weights),
        SumWeights(weights))

\* (variant: the update of a tf.metrics.mean that ignores its weights)
MeanUpdateUnweighted(acc, values, weights) ==
    Accumulator(RatAdd(acc.total, values), RatAdd(acc.count, Rat(1, 1)))

\* The update of tf.metrics.mean(values, weights) for a scalar
MeanUpdate(acc, values, weights) ==
    Accumulator(RatAdd(acc.total, RatMul(values, weights)),
                RatAdd(acc.count, weights))

\* The update of tf.metrics.mean(values) for a vector of size booleans of
\* which trues are true
MeanUpdateVector(acc, trues, size) ==
    Accumulator(RatAdd(acc.total, Rat(trues, 1)),
                RatAdd(acc.count, Rat(size, 1)))

\* The value of a tf.metrics.mean: total / count, and 0 when count is 0
MeanValue(acc) ==
    IF acc.count.num = 0 THEN Rat(0, 1)
    ELSE Rat(acc.total.num * acc.count.den, acc.total.den * acc.count.num)

\* One iteration of the loop of evaluate: the next batch is read and the
\* five update operations are run on it.  The predictions at the padding
\* positions, the number of right lemmas and of right lemmas with the
\* right sense, and the loss are the network's.
EvaluateBatch ==
    /\ epc = "batches"
    /\ permutation # <<>>
    /\ LET batch_perm == BatchPerm(permutation, batch_size)
           weights == SequenceMask(BatchLens(dataset, batch_perm))
           sum_weights == SumWeights(weights)
           t == BatchTags(dataset, batch_perm, tags_codec)
       IN  /\ \E padded \in [Padding(BatchLens(dataset, batch_perm))
                               -> PredictedTags(tags_codec)] :
              \E lem \in {0, sum_weights} :
              \E lemsense \in {0, lem} :
              \E loss \in BatchLosses :
                 LET p == BatchPredictions(dataset, batch_perm, padded)
                 IN  metrics' =
                        [metrics EXCEPT
                           !["accuracy_tag"] =
                              MeanUpdate(@, CorrectTag(t, p,
                                               AccuracyMask(tags_codec),
                                               weights),
                                         Rat(sum_weights, 1)),
                           !["accuracy_tags_compositional"] =
                              MeanUpdate(@, CorrectTagsCompositional(t, p,
                                               weights),
                                         Rat(1, 1)),
                           !["accuracy_lem"] =
                              MeanUpdateVector(@, lem, sum_weights),
                           !["accuracy_lemsense"] =
                              MeanUpdateVector(@, lemsense, sum_weights),
                           !["loss"] =
                              MeanUpdate(@, loss, Rat(sum_weights, 1))]
           /\ permutation' = Drop(permutation, Len(batch_perm))
    /\ session_runs' = Append(session_runs, "update")
    /\ UNCHANGED <<epc, dataset, batch_size, returned>>
    /\ UNCHANGED <<mainVars, teacherVars, inferVars, predictVars,
                   smoothVars>>

\* dataset.epoch_finished(): the values of the accumulators are returned
EvaluateReturn ==
    /\ epc = "batches"
    /\ permutation = <<>>
    /\ returned' = <<MeanValue(metrics["accuracy_tag"]),
                     MeanValue(metrics["accuracy_lem"]),
                     MeanValue(metrics["accuracy_lemsense"])>>
    /\ session_runs' = Append(session_runs, "current")
    /\ epc' = "done"
    /\ UNCHANGED <<dataset, batch_size, permutation, metrics>>
    /\ UNCHANGED <<mainVars, teacherVars, inferVars, predictVars,
                   smoothVars>>

NextEvaluate ==
    \/ ResetMetrics
    \/ EvaluateBatch
    \/ EvaluateReturn

SpecEvaluate == InitEvaluate /\ [][NextEvaluate]_vars

\* C12: evaluate resets the accumulators once, as the first thing it runs,
\* and never again; after every batch the tag accuracy held by the
\* accumulator is the number of words read so far whose whole tag is
\* predicted right divided by the number of words read so far, and the
\* tag accuracy returned is that ratio over the words of the dataset,
\* whatever the batch size and whatever the accumulators held before.
C12_MetricAccumulation ==
    epc # "idle" =>
        LET read == Len(dataset) - Len(permutation)
            words(n) == SumSeq([s \in 1..n |-> Len(dataset[s])])
            right(n) ==
                SumSeq([s \in 1..n |->
                    Cardinality({i \in 1..Len(dataset[s]) :
                        dataset[s][i].predictions[1]
                            = dataset[s][i].tags[1]})])
        IN  /\ epc = "start" => session_runs = <<>>
            /\ epc # "start" =>
                  /\ session_runs[1] = "reset_metrics"
                  /\ \A i \in 2..Len(session_runs) :
                        session_runs[i] # "reset_metrics"
            /\ (epc = "batches" /\ read > 0) =>
                  RatEq(MeanValue(metrics["accuracy_tag"]),
                        Rat(right(read), words(read)))
            /\ epc = "done" =>
                  RatEq(returned[1],
                        Rat(right(Len(dataset)), words(Len(dataset))))

\* evaluate has returned after two batches of different numbers of words,
\* with a word whose whole tag is right and another head wrong, and a
\* word whose whole tag is wrong
C12_Witness ==
    /\ epc = "done"
    /\ session_runs = <<"reset_metrics", "update", "update", "current">>
    /\ Len(dataset[1]) # Len(dataset[2])
    /\ dataset[1][1].predictions[1] # dataset[1][1].tags[1]
    /\ \E i \in 1..Len(dataset[2]) :
          /\ dataset[2][i].predictions[1] = dataset[2][i].tags[1]
          /\ dataset[2][i].predictions # dataset[2][i].tags
    /\ RatEq(returned[1], Rat(1, 3))

============================================================================
